---- MODULE Spec2Model ----
(***************************************************************************)
(* Model of the fulfillment worker (src/worker.py): the polling loop of    *)
(* process_orders, tenant routing, the three-step remote workflow, the     *)
(* rate-limited client make_api_call and the status writes to the orders   *)
(* table.                                                                  *)
(*                                                                         *)
(* Times are exact rationals <<numerator, denominator>> in seconds. The    *)
(* source computes them in binary floating point; the comparison with 0.8  *)
(* and the cap at MAX_SLEEP_TIME agree with the exact values because the   *)
(* quotient current/max is correctly rounded and rounding is monotone.     *)
(***************************************************************************)
EXTENDS Integers, Sequences, FiniteSets, TLC

(* ------------------------------ bounds --------------------------------- *)
MaxOrders == 2      \* rows the form ever inserts
MaxSubs == 2        \* fulfillment orders listed for one order
MaxRetries == 2     \* 429 answers to one make_api_call
MaxBucket == 3      \* largest "max" of the call-limit header

OrderIds == 1..MaxOrders

(* --------------------------- program constants ------------------------- *)
PREFIX_LEN == 2
DEFAULT_RETRY_AFTER == 5
MIN_SLEEP_TIME == <<1, 2>>
MAX_SLEEP_TIME == <<5, 1>>
THRESHOLD == <<4, 5>>

(* ------------------------------ rationals ------------------------------ *)
RatLE(a, b) == a[1] * b[2] <= b[1] * a[2]
RatLT(a, b) == a[1] * b[2] < b[1] * a[2]
RatMul(a, b) == <<a[1] * b[1], a[2] * b[2]>>
RatAdd(a, b) == <<a[1] * b[2] + b[1] * a[2], a[2] * b[2]>>
RatMin(a, b) == IF RatLE(a, b) THEN a ELSE b
RatOfInt(n) == <<n, 1>>
Zero == <<0, 1>>
\* Python's current_calls / max_calls for max_calls # 0
Quotient(c, m) == IF m > 0 THEN <<c, m>> ELSE <<0 - c, 0 - m>>

(* ------------------------------- strings ------------------------------- *)
\* A string is a sequence of one-character strings; None is Python's None.
Str(s) == [null |-> FALSE, s |-> s]
None == [null |-> TRUE, s |-> <<>>]

Upper(c) ==
  CASE c = "a" -> "A"
    [] c = "b" -> "B"
    [] c = "g" -> "G"
    [] OTHER -> c

UpperStr(s) == [i \in 1..Len(s) |-> Upper(s[i])]

\* order_name[:1], the prefix length of the form variant
Prefix_FirstChar(s) == SubSeq(s, 1, IF Len(s) < 1 THEN Len(s) ELSE 1)

\* order_name[:2]
Prefix(s) == SubSeq(s, 1, IF Len(s) < PREFIX_LEN THEN Len(s) ELSE PREFIX_LEN)

G12345 == <<"G", "1", "2", "3", "4", "5">>
OrderNames == {Str(G12345), Str(<<"a", "b", "7">>), Str(<<"G">>), None}

(* ----------------------- tenant configuration -------------------------- *)
\* os.environ: STORE_<n>_ORDER_PREFIX, STORE_<n>_STORE_URL,
\* STORE_<n>_ACCESS_TOKEN; "" stands for a missing or empty value.
Environ ==
  [n \in 1..3 |->
     CASE n = 1 -> [ORDER_PREFIX |-> <<"G">>, STORE_URL |-> "https://g.example",
                    ACCESS_TOKEN |-> "token-g"]
       [] n = 2 -> [ORDER_PREFIX |-> <<"a", "b">>, STORE_URL |-> "https://ab.example",
                    ACCESS_TOKEN |-> "token-ab"]
       [] n = 3 -> [ORDER_PREFIX |-> <<"C", "D">>, STORE_URL |-> "https://cd.example",
                    ACCESS_TOKEN |-> ""]]

\* The environments a process is observed to start in when load_stores is
\* examined on its own: any of the store numbers may have its
\* ORDER_PREFIX key set, to an empty or a non-empty value.
MaxStores == 2
Environs ==
  UNION {[N -> [ORDER_PREFIX : {<<>>, <<"G">>, <<"a", "b">>},
                STORE_URL : {"", "https://s.example"},
                ACCESS_TOKEN : {"", "token"}]] : N \in SUBSET (1..MaxStores)}

VARIABLE environ      \* os.environ of the process: store number -> entry

\* for key in os.environ: the keys STORE_<n>_ORDER_PREFIX are DOMAIN environ
load_stores ==
  LET ok == {n \in DOMAIN environ :
               environ[n].STORE_URL # "" /\ environ[n].ACCESS_TOKEN # ""}
      keys == {UpperStr(environ[n].ORDER_PREFIX) : n \in ok}
      entry(p) == CHOOSE n \in ok : UpperStr(environ[n].ORDER_PREFIX) = p
  IN [p \in keys |->
        [store_url |-> environ[entry(p)].STORE_URL,
         access_token |-> environ[entry(p)].ACCESS_TOKEN,
         success_count |-> 0,
         failure_count |-> 0,
         failed_orders |-> <<>>]]

\* store_prefixes = {prefix.upper(): store ...}: the same store objects
store_prefixes == {UpperStr(p) : p \in DOMAIN load_stores}

(* ------------------------- remote responses ---------------------------- *)
StatusCodes == {200, 201, 429, 500}

\* A header value is absent, or a text made of '/'-separated fields; a
\* field is the decimal text of an integer or some other text.
IntField(n) == [int |-> TRUE, n |-> n]
TextField == [int |-> FALSE, n |-> 0]
\* the decimal text "n.0", which int() rejects
DecimalField(n) == [int |-> FALSE, n |-> n]
NoHeader == [present |-> FALSE, fields |-> <<>>]
Header(fs) == [present |-> TRUE, fields |-> fs]

LimitHeaders ==
  {NoHeader, Header(<<>>), Header(<<TextField>>), Header(<<IntField(1)>>),
   Header(<<IntField(1), TextField>>),
   Header(<<IntField(1), IntField(2), IntField(3)>>)}
  \cup {Header(<<IntField(c), IntField(m)>>) :
          c \in 0..(2 * MaxBucket + 1), m \in 0..MaxBucket}

RetryAfterHeaders ==
  {NoHeader, Header(<<DecimalField(2)>>), Header(<<IntField(0)>>),
   Header(<<IntField(2)>>), Header(<<IntField(7)>>)}

\* session.request raised instead of answering
RequestError ==
  [raises |-> TRUE, status |-> 0, limit |-> NoHeader, retry_after |-> NoHeader]

Responses ==
  {RequestError} \cup
  [raises : {FALSE}, status : StatusCodes, limit : LimitHeaders,
   retry_after : RetryAfterHeaders]

\* "if api_call_limit:" - None and the empty string are falsy
Truthy(h) == h.present /\ h.fields # <<>>

(* ----------------------------- make_api_call --------------------------- *)
\* PacingSleep without the cap at MAX_SLEEP_TIME
PacingSleep_NoCap(h) ==
  IF ~Truthy(h)
  THEN [raised |-> FALSE, sleep |-> MIN_SLEEP_TIME]
  ELSE IF Len(h.fields) # 2 \/ \E i \in 1..Len(h.fields) : ~h.fields[i].int
  THEN [raised |-> TRUE, sleep |-> Zero]
  ELSE IF h.fields[2].n = 0
  THEN [raised |-> TRUE, sleep |-> Zero]
  ELSE LET ratio == Quotient(h.fields[1].n, h.fields[2].n)
       IN IF RatLT(THRESHOLD, ratio)
          THEN [raised |-> FALSE,
                sleep |-> RatMul(RatMul(MIN_SLEEP_TIME, ratio), RatOfInt(5))]
          ELSE [raised |-> FALSE, sleep |-> MIN_SLEEP_TIME]

\* The pacing sleep after one response: the value slept, or raised when
\* map(int, split('/')) or the division raises.
PacingSleep(h) ==
  IF ~Truthy(h)
  THEN [raised |-> FALSE, sleep |-> MIN_SLEEP_TIME]
  ELSE IF Len(h.fields) # 2 \/ \E i \in 1..Len(h.fields) : ~h.fields[i].int
  THEN [raised |-> TRUE, sleep |-> Zero]
  ELSE LET current_calls == h.fields[1].n
           max_calls == h.fields[2].n
       IN IF max_calls = 0
          THEN [raised |-> TRUE, sleep |-> Zero]
          ELSE LET ratio == Quotient(current_calls, max_calls)
               IN IF RatLT(THRESHOLD, ratio)
                  THEN [raised |-> FALSE,
                        sleep |-> RatMin(MAX_SLEEP_TIME,
                                         RatMul(RatMul(MIN_SLEEP_TIME, ratio),
                                                RatOfInt(5)))]
                  ELSE [raised |-> FALSE, sleep |-> MIN_SLEEP_TIME]

\* int(response.headers.get('Retry-After', 5)) followed by time.sleep
RetryAfterSleep(h) ==
  IF ~h.present
  THEN [raised |-> FALSE, sleep |-> RatOfInt(DEFAULT_RETRY_AFTER)]
  ELSE IF Len(h.fields) # 1 \/ ~h.fields[1].int
  THEN [raised |-> TRUE, sleep |-> Zero]
  ELSE IF h.fields[1].n < 0
  THEN \* time.sleep rejects a negative length
       [raised |-> TRUE, sleep |-> Zero]
  ELSE [raised |-> FALSE, sleep |-> RatOfInt(h.fields[1].n)]

\* The iteration with a retry ceiling of zero: a 429 is handed back
Attempt_GiveUp(r) ==
  IF r.raises
  THEN [kind |-> "raise", status |-> 0, cause |-> "request",
        paced |-> 0, pace |-> Zero, wait |-> Zero]
  ELSE LET p == PacingSleep(r.limit)
       IN IF p.raised
          THEN [kind |-> "raise", status |-> r.status, cause |-> "call_limit",
                paced |-> 0, pace |-> Zero, wait |-> Zero]
          ELSE [kind |-> "return", status |-> r.status, cause |-> "none",
                paced |-> 1, pace |-> p.sleep, wait |-> Zero]

\* One iteration of the while loop of make_api_call on the answer r.
Attempt(r) ==
  IF r.raises
  THEN [kind |-> "raise", status |-> 0, cause |-> "request",
        paced |-> 0, pace |-> Zero, wait |-> Zero]
  ELSE LET p == PacingSleep(r.limit)
           w == RetryAfterSleep(r.retry_after)
       IN IF p.raised
          THEN [kind |-> "raise", status |-> r.status, cause |-> "call_limit",
                paced |-> 0, pace |-> Zero, wait |-> Zero]
          ELSE IF r.status = 429
          THEN IF w.raised
               THEN [kind |-> "raise", status |-> r.status, cause |-> "retry_after",
                     paced |-> 1, pace |-> p.sleep, wait |-> Zero]
               ELSE [kind |-> "retry", status |-> r.status, cause |-> "none",
                     paced |-> 1, pace |-> p.sleep, wait |-> w.sleep]
          ELSE [kind |-> "return", status |-> r.status, cause |-> "none",
                paced |-> 1, pace |-> p.sleep, wait |-> Zero]

Outcomes == {Attempt(r) : r \in Responses}

\* What the caller of make_api_call can observe of one iteration
WorkerOutcomes ==
  {[kind |-> o.kind, status |-> o.status, cause |-> o.cause] : o \in Outcomes}


(* ---------------------------- response bodies -------------------------- *)
\* Body of the order lookup: response.json() raises, or yields a dict whose
\* 'orders' key may be missing; an order may lack its 'id'.
RemoteOrder == [has_id |-> TRUE, id |-> 999]
BrokenOrder == [has_id |-> FALSE, id |-> 0]
NotJson == [json |-> FALSE, has_key |-> FALSE, list |-> <<>>]
Json(l) == [json |-> TRUE, has_key |-> TRUE, list |-> l]
NoKey == [json |-> TRUE, has_key |-> FALSE, list |-> <<>>]

LocateBodies ==
  {NotJson, NoKey, Json(<<>>), Json(<<RemoteOrder>>), Json(<<BrokenOrder>>)}

\* A fulfillment order of the listing: its 'id' and 'status' keys are
\* present (ok) or one is missing.
Open == [ok |-> TRUE, status |-> "open"]
Closed == [ok |-> TRUE, status |-> "closed"]
Broken == [ok |-> FALSE, status |-> ""]
SubResources == {Open, Closed, Broken}

SeqsUpTo(S, n) == UNION {[1..m -> S] : m \in 0..n}

EnumerateBodies == {NotJson, NoKey} \cup {Json(l) : l \in SeqsUpTo(SubResources, MaxSubs)}

\* response.json().get(key, [])
JsonList(body) == IF body.has_key THEN body.list ELSE <<>>

(* -------------------------------- state -------------------------------- *)
VARIABLES
  db,                 \* the orders table: id -> [order_name, status]
  pc,                 \* position of the worker in process_orders
  fatal,              \* the exception caught by the outer handler
  orders,             \* the fetched batch (ids in fetch order)
  k,                  \* index in orders of the row the for loop is on
  total_orders, total_successful, total_failed,
  stores,             \* prefix -> tenant with its counters
  store,              \* key of the tenant of the current order
  shopify_order_id,
  fulfillment_orders, \* the listing of the current order
  j,                  \* index of the fulfillment order the inner loop is on
  order_fulfilled,
  retries,            \* 429 answers seen by the running make_api_call
  called,             \* history: id -> steps for which a request was issued
  writes,             \* history: id -> number of status writes committed
  trace,              \* history of the current order
  seen,               \* history: what the lookups of the current order answered
  closed,             \* the remote: id -> positions fulfilled by a 201, while
                      \* the row is processed or still pending
  other,              \* a second instance of the worker on the same table
  api                 \* a run of make_api_call observed on its own

vars ==
  <<db, pc, fatal, orders, k, total_orders, total_successful, total_failed,
    stores, store, shopify_order_id, fulfillment_orders, j, order_fulfilled,
    retries, called, writes, trace, seen, closed, other, api, environ>>

workerVars ==
  <<db, pc, fatal, orders, k, total_orders, total_successful, total_failed,
    stores, store, shopify_order_id, fulfillment_orders, j, order_fulfilled,
    retries, called, writes, trace, seen, closed, other, environ>>

Steps == {"locate", "enumerate", "create"}
NoStore == <<>>
NoTrace ==
  [creates |-> <<>>, exc |-> [cause |-> "none", status |-> 0],
   dberr |-> FALSE, succ |-> 0, fail |-> 0]

NoSeen == [locate |-> "none", enumerate |-> "none"]
OtherOff == [pc |-> "off", orders |-> <<>>, k |-> 0, ran |-> {}, wrote |-> {}]

Requests ==
  {[method |-> "GET", url |-> "orders.json", payload |-> "name"],
   [method |-> "GET", url |-> "fulfillment_orders.json", payload |-> "none"],
   [method |-> "POST", url |-> "fulfillments.json", payload |-> "fulfillment"]}
NoRequest == [method |-> "", url |-> "", payload |-> ""]
ApiIdle ==
  [pc |-> "idle", request |-> NoRequest, sent |-> NoRequest, n |-> 0,
   resp |-> RequestError, out |-> Attempt(RequestError)]

\* The process in the environment it was started in, stores loaded
\* (lines 62-75), before its first fetch
Started ==
  /\ db = [id \in OrderIds |-> [order_name |-> None, status |-> "absent"]]
  /\ pc = "poll"
  /\ fatal = "none"
  /\ orders = <<>>
  /\ k = 0
  /\ total_orders = 0
  /\ total_successful = 0
  /\ total_failed = 0
  /\ stores = load_stores
  /\ store = NoStore
  /\ shopify_order_id = 0
  /\ fulfillment_orders = <<>>
  /\ j = 0
  /\ order_fulfilled = FALSE
  /\ retries = 0
  /\ called = [id \in OrderIds |-> {}]
  /\ writes = [id \in OrderIds |-> 0]
  /\ trace = NoTrace
  /\ seen = NoSeen
  /\ closed = [id \in OrderIds |-> {}]
  /\ other = OtherOff
  /\ api = ApiIdle

Init ==
  /\ environ = Environ
  /\ Started

Cur == orders[k]
Terminal == {"fulfilled", "failed"}


(* ------------------------- outcomes of one step ------------------------ *)
\* The UPDATE executed without conn.commit(): nothing reaches the table
SetStatus_NoCommit(id, status) ==
  /\ db' = db
  /\ writes' = [writes EXCEPT ![id] = @ + 1]

\* UPDATE orders SET status = ... ; conn.commit()
SetStatus(id, status) ==
  /\ db' = [db EXCEPT ![id].status = status]
  /\ writes' = [writes EXCEPT ![id] = @ + 1]

\* An exception raised inside the try block of the current order reaches
\* the handler of line 259.
Raise(cause, status) ==
  /\ pc' = "except"
  /\ trace' = [trace EXCEPT !.exc = [cause |-> cause, status |-> status],
                            !.dberr = @ \/ cause = "database"]
  /\ UNCHANGED <<db, writes, stores, total_successful, total_failed, fatal>>

\* An exception that reaches the handler of line 285: the worker exits.
Fatal(cause) ==
  /\ pc' = "exited"
  /\ fatal' = cause
  /\ UNCHANGED <<db, writes, stores, total_successful, total_failed>>

\* The failure written and counted for the tenant but not in the aggregate
MarkFailed_NoTotal ==
  /\ SetStatus(Cur, "failed")
  /\ stores' = [stores EXCEPT ![store].failure_count = @ + 1,
                              ![store].failed_orders = Append(@, db[Cur].order_name)]
  /\ trace' = [trace EXCEPT !.fail = @ + 1]
  /\ pc' = "loop"
  /\ UNCHANGED <<total_successful, total_failed, fatal>>

\* status 'failed' written and counted for the routed current order
MarkFailed ==
  /\ SetStatus(Cur, "failed")
  /\ stores' = [stores EXCEPT ![store].failure_count = @ + 1,
                              ![store].failed_orders = Append(@, db[Cur].order_name)]
  /\ total_failed' = total_failed + 1
  /\ trace' = [trace EXCEPT !.fail = @ + 1]
  /\ pc' = "loop"
  /\ UNCHANGED <<total_successful, fatal>>

MarkFulfilled ==
  /\ SetStatus(Cur, "fulfilled")
  /\ stores' = [stores EXCEPT ![store].success_count = @ + 1]
  /\ total_successful' = total_successful + 1
  /\ trace' = [trace EXCEPT !.succ = @ + 1]
  /\ pc' = "loop"
  /\ UNCHANGED <<total_failed, fatal>>

\* A failure branch inside the try block: the write may raise, and then the
\* per-order handler catches the database exception. A write that raises
\* commits nothing.
FailInTry ==
  \/ MarkFailed
  \/ Raise("database", 0)

(* ------------------------------- the form ------------------------------ *)
\* The form inserts a pending row; ids are assigned in sequence.
Insert(id, name) ==
  /\ db[id].status = "absent"
  /\ \A i \in OrderIds : i < id => db[i].status # "absent"
  /\ db' = [db EXCEPT ![id] = [order_name |-> name, status |-> "pending"]]
  /\ UNCHANGED <<pc, fatal, orders, k, total_orders, total_successful,
                 total_failed, stores, store, shopify_order_id,
                 fulfillment_orders, j, order_fulfilled, retries, called,
                 writes, trace, seen, closed, other, api, environ>>

(* ------------------------------ the worker ----------------------------- *)
RECURSIVE Ascending(_)
Ascending(S) ==
  IF S = {} THEN <<>>
  ELSE LET m == CHOOSE x \in S : \A y \in S : x <= y
       IN <<m>> \o Ascending(S \ {m})

\* The fetch without its status filter
Pending_All == {id \in OrderIds : db[id].status # "absent"}

\* SELECT * FROM orders WHERE status = 'pending'
Pending == {id \in OrderIds : db[id].status = "pending"}

Fetch ==
  /\ pc = "poll"
  /\ \/ /\ orders' = Ascending(Pending)
        /\ k' = 0
        /\ IF Pending = {}
           THEN /\ pc' = "sleep"
                /\ UNCHANGED <<total_orders, total_successful, total_failed>>
           ELSE /\ pc' = "loop"
                /\ total_orders' = Cardinality(Pending)
                /\ total_successful' = 0
                /\ total_failed' = 0
        /\ trace' = NoTrace
        /\ seen' = NoSeen
        /\ UNCHANGED <<db, writes, stores, fatal>>
     \/ /\ Fatal("fetch")
        /\ UNCHANGED <<orders, k, total_orders, trace, seen>>
  /\ UNCHANGED <<store, shopify_order_id, fulfillment_orders, j,
                 order_fulfilled, retries, called, closed, other, api, environ>>

Sleep ==
  /\ pc = "sleep"
  /\ pc' = "poll"
  /\ UNCHANGED <<db, fatal, orders, k, total_orders, total_successful,
                 total_failed, stores, store, shopify_order_id,
                 fulfillment_orders, j, order_fulfilled, retries, called,
                 writes, trace, seen, closed, other, api, environ>>

\* The head of "for order_row in orders" and the routing of the next row
\* (lines 91-121). The locals of the previous order are dead here (each is
\* assigned before it is read again) and are reset; the history of the
\* previous order ends.
NextOrder ==
  /\ pc = "loop"
  /\ IF k = Len(orders)
     THEN /\ pc' = "report"
          /\ UNCHANGED <<db, writes, stores, total_successful, total_failed,
                         fatal, k, store, trace>>
     ELSE LET id == orders[k + 1]
              order_name == db[id].order_name
          IN /\ k' = k + 1
             /\ IF order_name.null
                THEN \* order_name[:2] raises outside the try block
                     /\ Fatal("route")
                     /\ trace' = NoTrace
                     /\ UNCHANGED store
                ELSE LET order_prefix == UpperStr(Prefix(order_name.s))
                     IN IF order_prefix \notin store_prefixes
                        THEN /\ \/ /\ SetStatus(id, "failed")
                                   /\ total_failed' = total_failed + 1
                                   /\ trace' = [NoTrace EXCEPT !.fail = 1]
                                   /\ pc' = "loop"
                                   /\ UNCHANGED <<stores, total_successful, fatal>>
                                \/ /\ Fatal("write")
                                   /\ trace' = [NoTrace EXCEPT !.dberr = TRUE]
                             /\ UNCHANGED store
                        ELSE /\ store' = order_prefix
                             /\ pc' = "locate"
                             /\ trace' = NoTrace
                             /\ UNCHANGED <<db, writes, stores, total_successful,
                                            total_failed, fatal>>
  /\ shopify_order_id' = 0
  /\ fulfillment_orders' = <<>>
  /\ j' = 0
  /\ order_fulfilled' = FALSE
  /\ retries' = 0
  /\ seen' = NoSeen
  /\ closed' = IF k >= 1 THEN [closed EXCEPT ![orders[k]] = {}] ELSE closed
  /\ UNCHANGED <<orders, total_orders, called, other, api, environ>>

\* One iteration of make_api_call for the current order's step, with the
\* answer o: the request is issued; the iteration raises, or sleeps and
\* reissues, or returns the response to the step.
ApiStep(step, o) ==
  /\ called' = [called EXCEPT ![Cur] = @ \cup {step}]
  /\ CASE o.kind = "raise" ->
            /\ Raise(o.cause, o.status)
            /\ UNCHANGED <<retries, shopify_order_id, fulfillment_orders, j,
                           order_fulfilled, seen, closed>>
       [] o.kind = "retry" ->
            /\ retries < MaxRetries
            /\ retries' = retries + 1
            /\ UNCHANGED <<pc, trace, db, writes, stores, total_successful,
                           total_failed, fatal, shopify_order_id,
                           fulfillment_orders, j, order_fulfilled, seen, closed>>
       [] o.kind = "return" ->
            retries' = 0
  /\ UNCHANGED <<orders, k, total_orders, store, other, api, environ>>

\* How a lookup answered: the conditions of lines 155, 164, 184 and 193
Answer(status, body) ==
  IF status # 200 THEN "non200"
  ELSE IF ~body.json THEN "invalid"
  ELSE IF JsonList(body) = <<>> THEN "empty"
  ELSE "listed"

\* Step 1: get the order id by order name (lines 149-175)
LocateReturned(status, body) ==
  /\ seen' = [seen EXCEPT !.locate = Answer(status, body)]
  /\ IF status # 200
     THEN FailInTry /\ UNCHANGED shopify_order_id
     ELSE IF ~body.json
     THEN Raise("json", status) /\ UNCHANGED shopify_order_id
     ELSE IF JsonList(body) = <<>>
     THEN FailInTry /\ UNCHANGED shopify_order_id
     ELSE IF ~JsonList(body)[1].has_id
     THEN Raise("key", status) /\ UNCHANGED shopify_order_id
     ELSE /\ shopify_order_id' = JsonList(body)[1].id
          /\ pc' = "enumerate"
          /\ UNCHANGED <<trace, db, writes, stores, total_successful,
                         total_failed, fatal>>
  /\ UNCHANGED <<fulfillment_orders, j, order_fulfilled, closed>>

Locate ==
  /\ pc = "locate"
  /\ \E o \in WorkerOutcomes, body \in LocateBodies :
       /\ ApiStep("locate", o)
       /\ o.kind = "return" => LocateReturned(o.status, body)

\* Step 2 without the check of the response's status code
EnumerateReturned_AnyStatus(status, body) ==
  /\ seen' = [seen EXCEPT !.enumerate = Answer(status, body)]
  /\ IF ~body.json
     THEN Raise("json", status) /\ UNCHANGED <<fulfillment_orders, j>>
     ELSE IF JsonList(body) = <<>>
     THEN FailInTry /\ UNCHANGED <<fulfillment_orders, j>>
     ELSE /\ fulfillment_orders' = JsonList(body)
          /\ j' = 1
          /\ pc' = "create"
          /\ UNCHANGED <<trace, db, writes, stores, total_successful,
                         total_failed, fatal>>
  /\ UNCHANGED <<shopify_order_id, order_fulfilled, closed>>

\* Step 2: get the fulfillment orders of the order (lines 177-202)
EnumerateReturned(status, body) ==
  /\ seen' = [seen EXCEPT !.enumerate = Answer(status, body)]
  /\ IF status # 200
     THEN FailInTry /\ UNCHANGED <<fulfillment_orders, j>>
     ELSE IF ~body.json
     THEN Raise("json", status) /\ UNCHANGED <<fulfillment_orders, j>>
     ELSE IF JsonList(body) = <<>>
     THEN FailInTry /\ UNCHANGED <<fulfillment_orders, j>>
     ELSE /\ fulfillment_orders' = JsonList(body)
          /\ j' = 1
          /\ pc' = "create"
          /\ UNCHANGED <<trace, db, writes, stores, total_successful,
                         total_failed, fatal>>
  /\ UNCHANGED <<shopify_order_id, order_fulfilled, closed>>

\* The remote lists as open no fulfillment order that a create call has
\* already fulfilled (the call answered 201).
Listable(body) ==
  \A i \in closed[Cur] :
     i <= Len(JsonList(body)) => JsonList(body)[i] # Open

Enumerate ==
  /\ pc = "enumerate"
  /\ \E o \in WorkerOutcomes, body \in EnumerateBodies :
       /\ Listable(body)
       /\ ApiStep("enumerate", o)
       /\ o.kind = "return" => EnumerateReturned(o.status, body)


\* Every answer of a create call taken as a success
CreateReturned_Any(status) ==
  /\ order_fulfilled' = TRUE
  /\ j' = j + 1
  /\ trace' = [trace EXCEPT !.creates = Append(@, status)]
  /\ closed' = IF status = 201 THEN [closed EXCEPT ![Cur] = @ \cup {j}]
                ELSE closed
  /\ UNCHANGED <<pc, db, writes, stores, total_successful, total_failed,
                 fatal, shopify_order_id, fulfillment_orders, seen>>

\* The flag overwritten by each create answer instead of only being set
CreateReturned_Last(status) ==
  /\ order_fulfilled' = (status = 201)
  /\ j' = j + 1
  /\ trace' = [trace EXCEPT !.creates = Append(@, status)]
  /\ closed' = IF status = 201 THEN [closed EXCEPT ![Cur] = @ \cup {j}]
                ELSE closed
  /\ UNCHANGED <<pc, db, writes, stores, total_successful, total_failed,
                 fatal, shopify_order_id, fulfillment_orders, seen>>

\* Step 3: one iteration of "for fo in fulfillment_orders" (lines 205-243)
CreateReturned(status) ==
  /\ order_fulfilled' = (order_fulfilled \/ status = 201)
  /\ j' = j + 1
  /\ trace' = [trace EXCEPT !.creates = Append(@, status)]
  /\ closed' = IF status = 201 THEN [closed EXCEPT ![Cur] = @ \cup {j}]
                ELSE closed
  /\ UNCHANGED <<pc, db, writes, stores, total_successful, total_failed,
                 fatal, shopify_order_id, fulfillment_orders, seen>>

\* The inner loop without the check of the fulfillment order's status
Create_NoSkip ==
  /\ pc = "create"
  /\ j <= Len(fulfillment_orders)
  /\ LET fo == fulfillment_orders[j]
     IN IF ~fo.ok
        THEN /\ Raise("key", 0)
             /\ UNCHANGED <<orders, k, total_orders, store, api, called, retries,
                            shopify_order_id, fulfillment_orders, j,
                            order_fulfilled, seen, closed, other, environ>>
        ELSE \E o \in WorkerOutcomes :
               /\ ApiStep("create", o)
               /\ o.kind = "return" => CreateReturned(o.status)

Create ==
  /\ pc = "create"
  /\ j <= Len(fulfillment_orders)
  /\ LET fo == fulfillment_orders[j]
     IN IF ~fo.ok
        THEN \* fo['id'] or fo['status'] raises KeyError
             /\ Raise("key", 0)
             /\ UNCHANGED <<orders, k, total_orders, store, api, called, retries,
                            shopify_order_id, fulfillment_orders, j,
                            order_fulfilled, seen, closed, other, environ>>
        ELSE IF fo.status # "open"
        THEN \* skipped without a request
             /\ j' = j + 1
             /\ trace' = [trace EXCEPT !.creates = Append(@, 0)]
             /\ UNCHANGED <<pc, db, writes, stores, total_successful,
                            total_failed, fatal, orders, k, total_orders, store,
                            api, called, retries, shopify_order_id,
                            fulfillment_orders, order_fulfilled, seen, closed,
                            other, environ>>
        ELSE \E o \in WorkerOutcomes :
               /\ ApiStep("create", o)
               /\ o.kind = "return" => CreateReturned(o.status)

\* After the inner loop: the status of the order (lines 245-257)
Finish ==
  /\ pc = "create"
  /\ j > Len(fulfillment_orders)
  /\ IF order_fulfilled
     THEN MarkFulfilled \/ Raise("database", 0)
     ELSE FailInTry
  /\ UNCHANGED <<orders, k, total_orders, store, shopify_order_id,
                 fulfillment_orders, j, order_fulfilled, retries, called,
                 seen, closed, other, api, environ>>

\* The handler counting the failure without writing the status
Except_NoWrite ==
  /\ pc = "except"
  /\ stores' = [stores EXCEPT ![store].failure_count = @ + 1,
                              ![store].failed_orders = Append(@, db[Cur].order_name)]
  /\ total_failed' = total_failed + 1
  /\ trace' = [trace EXCEPT !.fail = @ + 1]
  /\ pc' = "loop"
  /\ UNCHANGED <<db, writes, total_successful, fatal, orders, k, total_orders,
                 store, shopify_order_id, fulfillment_orders, j,
                 order_fulfilled, retries, called, seen, closed, other, api, environ>>

\* except Exception as e (lines 259-265)
Except ==
  /\ pc = "except"
  /\ \/ MarkFailed
     \/ /\ Fatal("write")
        /\ trace' = [trace EXCEPT !.dberr = TRUE]
  /\ UNCHANGED <<orders, k, total_orders, store, shopify_order_id,
                 fulfillment_orders, j, order_fulfilled, retries, called,
                 seen, closed, other, api, environ>>

\* The summary built from the aggregate and the per-tenant counters
\* (lines 267-280)
summary_message ==
  [total_orders |-> total_orders,
   successful |-> total_successful,
   failed |-> total_failed,
   per_store |-> [p \in DOMAIN stores |->
                   [successful |-> stores[p].success_count,
                    failed |-> stores[p].failure_count,
                    failed_orders |-> stores[p].failed_orders]]]

\* The summary and send_telegram_message (lines 46-60, 267-283)
TelegramOutcomes == {"unconfigured", "sent", "rejected", "raises"}

Report ==
  /\ pc = "report"
  /\ \E outcome \in TelegramOutcomes :
       IF outcome = "raises"
       THEN Fatal("notify")
       ELSE /\ pc' = "poll"
            /\ UNCHANGED <<db, writes, stores, total_successful, total_failed,
                           fatal>>
  /\ UNCHANGED <<orders, k, total_orders, store, shopify_order_id,
                 fulfillment_orders, j, order_fulfilled, retries, called,
                 trace, seen, closed, other, api, environ>>

Next ==
  \/ \E id \in OrderIds, name \in OrderNames : Insert(id, name)
  \/ Fetch
  \/ Sleep
  \/ NextOrder
  \/ Locate
  \/ Enumerate
  \/ Create
  \/ Finish
  \/ Except
  \/ Report

Spec == Init /\ [][Next]_vars

(* ---------------------- make_api_call on its own ----------------------- *)
ApiCall(req) ==
  /\ api.pc = "idle"
  /\ api' = [ApiIdle EXCEPT !.pc = "loop", !.request = req]
  /\ UNCHANGED workerVars

\* One iteration of "while True" (lines 124-146)
ApiAttempt ==
  /\ api.pc = "loop"
  /\ \E r \in Responses :
       LET o == Attempt(r)
       IN /\ o.kind = "retry" => api.n < MaxRetries
          /\ api' = [api EXCEPT
                       !.sent = api.request,
                       !.resp = r,
                       !.out = o,
                       !.n = IF o.kind = "retry" THEN @ + 1 ELSE @,
                       !.pc = CASE o.kind = "retry" -> "loop"
                                [] o.kind = "return" -> "returned"
                                [] o.kind = "raise" -> "raised"]
  /\ UNCHANGED workerVars

ApiDone ==
  /\ api.pc \in {"returned", "raised"}
  /\ api' = ApiIdle
  /\ UNCHANGED workerVars

NextApi ==
  \/ \E req \in Requests : ApiCall(req)
  \/ ApiAttempt
  \/ ApiDone

SpecApi == Init /\ [][NextApi]_vars

(* ------------------- external termination and restart ------------------ *)
\* The process is terminated from outside (a signal) at any point. A write
\* is an UPDATE with its commit: a process killed between the two leaves
\* the row as it was, which is the state before the write.
Kill ==
  /\ pc \notin {"exited", "killed"}
  /\ pc' = "killed"
  /\ UNCHANGED <<db, fatal, orders, k, total_orders, total_successful,
                 total_failed, stores, store, shopify_order_id,
                 fulfillment_orders, j, order_fulfilled, retries, called,
                 writes, trace, seen, closed, other, api, environ>>

\* The worker is started again: a new process_orders() with a new
\* connection, new tenants and no locals. The table and the remote keep
\* their state.
Restart ==
  /\ pc \in {"exited", "killed"}
  /\ pc' = "poll"
  /\ fatal' = "none"
  /\ orders' = <<>>
  /\ k' = 0
  /\ total_orders' = 0
  /\ total_successful' = 0
  /\ total_failed' = 0
  /\ stores' = load_stores
  /\ store' = NoStore
  /\ shopify_order_id' = 0
  /\ fulfillment_orders' = <<>>
  /\ j' = 0
  /\ order_fulfilled' = FALSE
  /\ retries' = 0
  /\ trace' = NoTrace
  /\ seen' = NoSeen
  /\ closed' = [id \in OrderIds |->
                 IF db[id].status = "pending" THEN closed[id] ELSE {}]
  /\ UNCHANGED <<db, called, writes, other, api, environ>>

NextRestart ==
  \/ Next
  \/ Kill
  \/ Restart

SpecRestart == Init /\ [][NextRestart]_vars

(* ------------------ a second instance on the same table ---------------- *)
\* A second process_orders on the same orders table and the same remote.
\* Its pass over one row (lines 91-265) is taken as one step, which leaves
\* out interleavings inside the pass and adds no behaviour.
OtherFetch ==
  /\ other.pc \in {"off", "poll"}
  /\ other' = [other EXCEPT !.pc = IF Pending = {} THEN "poll" ELSE "loop",
                            !.orders = Ascending(Pending),
                            !.k = 0]
  /\ other' # other
  /\ UNCHANGED <<db, pc, fatal, orders, k, total_orders, total_successful,
                 total_failed, stores, store, shopify_order_id,
                 fulfillment_orders, j, order_fulfilled, retries, called,
                 writes, trace, seen, closed, api, environ>>

OtherProcess ==
  /\ other.pc = "loop"
  /\ IF other.k = Len(other.orders)
     THEN /\ other' = [other EXCEPT !.pc = "poll"]
          /\ UNCHANGED <<db, writes>>
     ELSE LET id == other.orders[other.k + 1]
              order_name == db[id].order_name
          IN IF order_name.null
             THEN /\ other' = [other EXCEPT !.pc = "exited"]
                  /\ UNCHANGED <<db, writes>>
             ELSE IF UpperStr(Prefix(order_name.s)) \notin store_prefixes
             THEN /\ SetStatus(id, "failed")
                  /\ other' = [other EXCEPT !.k = @ + 1,
                                            !.wrote = @ \cup {id}]
             ELSE \E status \in Terminal :
                    /\ SetStatus(id, status)
                    /\ other' = [other EXCEPT !.k = @ + 1,
                                              !.ran = @ \cup {id},
                                              !.wrote = @ \cup {id}]
  /\ UNCHANGED <<pc, fatal, orders, k, total_orders, total_successful,
                 total_failed, stores, store, shopify_order_id,
                 fulfillment_orders, j, order_fulfilled, retries, called,
                 trace, seen, closed, api, environ>>

NextTwo ==
  \/ Next
  \/ OtherFetch
  \/ OtherProcess

SpecTwo == Init /\ [][NextTwo]_vars

(* ------------------- load_stores and the tenant lookup ----------------- *)
\* The worker started in any of the environments, up to the routing of
\* each fetched row (lines 74-106).
InitStores ==
  /\ environ \in Environs
  /\ Started

NextStores ==
  \/ \E id \in OrderIds, name \in OrderNames : Insert(id, name)
  \/ Fetch
  \/ Sleep
  \/ NextOrder

SpecStores == InitStores /\ [][NextStores]_vars

(* --------------------- the worker loop kept running -------------------- *)
\* The steps of the worker itself
Worker ==
  \/ Fetch
  \/ Sleep
  \/ NextOrder
  \/ Locate
  \/ Enumerate
  \/ Create
  \/ Finish
  \/ Except
  \/ Report

\* The step raises no database exception (cursor.execute, fetchall and
\* conn.commit all succeed).
NoDatabaseError ==
  /\ ~trace'.dberr
  /\ fatal' \notin {"fetch", "write"}

\* The worker with a database that never fails. The process is a running
\* thread that is never terminated, so it always takes its next step; an
\* endpoint answers 429 at most MaxRetries times in a row to one call.
NextLive ==
  \/ \E id \in OrderIds, name \in OrderNames : Insert(id, name)
  \/ Fetch /\ NoDatabaseError
  \/ Sleep
  \/ NextOrder /\ NoDatabaseError
  \/ Locate /\ NoDatabaseError
  \/ Enumerate /\ NoDatabaseError
  \/ Create /\ NoDatabaseError
  \/ Finish /\ NoDatabaseError
  \/ Except /\ NoDatabaseError
  \/ Report

SpecLive == Init /\ [][NextLive]_vars /\ WF_vars(Worker /\ NoDatabaseError)


(* ============================== properties ============================= *)
\* The for loop has ended the processing of the row orders[k].
Finished == pc = "loop" /\ k >= 1
Range(q) == {q[i] : i \in 1..Len(q)}
Got201 == \E i \in 1..Len(trace.creates) : trace.creates[i] = 201

\* C1: when the for loop over a fetched batch has ended (the worker is about
\* to build the summary), every row of the batch has the committed status
\* fulfilled or failed; none is still pending.
C1_BatchTerminal ==
  pc = "report" => \A i \in 1..Len(orders) : db[orders[i]].status \in Terminal

C1_Witness ==
  /\ pc = "report"
  /\ Len(orders) >= 2
  /\ trace.exc.cause # "none"
  /\ \E i \in 1..Len(orders) : db[orders[i]].status = "fulfilled"
  /\ \E i \in 1..Len(orders) : db[orders[i]].status = "failed"

\* C2: the worker is never inside the workflow of a row whose committed
\* status is not pending; every status write is to the current row of the
\* fetched batch, finds it pending and leaves it fulfilled or failed (never
\* pending); and once a row is fulfilled or failed no step issues a request
\* for it or writes it again.
C2_NeverRevisited ==
  /\ [](pc \in {"locate", "enumerate", "create", "except"}
          => db[Cur].status = "pending")
  /\ [][\A id \in OrderIds :
          /\ writes'[id] # writes[id]
               => /\ db[id].status = "pending"
                  /\ db'[id].status \in Terminal
                  /\ k' >= 1 /\ orders'[k'] = id /\ orders' = orders
          /\ db[id].status \in Terminal
               => /\ db'[id] = db[id]
                  /\ writes'[id] = writes[id]
                  /\ called'[id] = called[id]]_vars

C2_Witness ==
  /\ pc = "locate"
  /\ \E id \in OrderIds :
       /\ db[id].status \in Terminal
       /\ writes[id] = 1
       /\ id \notin Range(orders)

\* C3 (as claimed): once a create call of the current order has returned
\* 201 and no database write has raised, the status written for the order
\* is fulfilled, whatever happened to its other create calls.
C3_Original ==
  (/\ Finished
   /\ Got201
   /\ \A i \in 1..Len(fulfillment_orders) : fulfillment_orders[i].ok
   /\ ~trace.dberr)
    => db[Cur].status = "fulfilled"

\* C4: an order whose fulfillment orders are all open, whose create calls
\* all returned (none raised), at least one of them with 201, and whose
\* status write did not raise, is fulfilled and counted once as successful
\* and never as failed, in whatever order the 201 and the other answers came.
AllOpenAnswered ==
  /\ fulfillment_orders # <<>>
  /\ \A i \in 1..Len(fulfillment_orders) : fulfillment_orders[i] = Open
  /\ Len(trace.creates) = Len(fulfillment_orders)
  /\ \A i \in 1..Len(trace.creates) : trace.creates[i] \notin {0, 429}

C4_PartialSuccess ==
  (Finished /\ AllOpenAnswered /\ Got201 /\ ~trace.dberr)
    => /\ db[Cur].status = "fulfilled"
       /\ trace.succ = 1
       /\ trace.fail = 0

C4_Witness ==
  /\ Finished
  /\ AllOpenAnswered
  /\ trace.creates = <<201, 500>>
  /\ db[Cur].status = "fulfilled"

\* C5: a row whose order_name prefix (its first PREFIX_LEN characters,
\* upper-cased) is no key of the tenant mapping never has a request issued
\* for it, and when the for loop has ended its processing it is failed by
\* exactly one write.
NoTenant(id) ==
  /\ db[id].status # "absent"
  /\ ~db[id].order_name.null
  /\ UpperStr(SubSeq(db[id].order_name.s, 1,
                     IF Len(db[id].order_name.s) < 2
                     THEN Len(db[id].order_name.s) ELSE 2)) \notin DOMAIN stores

C5_RoutingFailure ==
  \A id \in OrderIds :
    NoTenant(id)
      => /\ called[id] = {}
         /\ db[id].status \in {"pending", "failed"}
         /\ (Finished /\ Cur = id) => (db[id].status = "failed" /\ writes[id] = 1)

C5_Witness ==
  /\ Finished
  /\ NoTenant(Cur)
  /\ db[Cur].status = "failed"
  /\ called[Cur] = {}


\* C6 (as claimed): with a tenant configured under prefix G, the row named
\* G12345 is routed to tenant G (its lookup request is issued with that
\* tenant), and when its one open fulfillment order is created with 201 it
\* is fulfilled and counted once as a success.
C6_Original ==
  (/\ Finished
   /\ db[Cur].order_name = Str(G12345)
   /\ <<"G">> \in DOMAIN stores
   /\ ~trace.dberr)
    => /\ store = <<"G">>
       /\ "locate" \in called[Cur]
       /\ (fulfillment_orders = <<Open>> /\ trace.creates = <<201>>)
            => (db[Cur].status = "fulfilled" /\ trace.succ = 1)

\* make_api_call has received an answer to a request it issued
Answered == api.sent # NoRequest /\ ~api.resp.raises

\* C7 (as claimed): make_api_call never returns a 429, and after every 429
\* it has slept at least the Retry-After value (5 when absent) and is about
\* to reissue the same request.
C7_Original ==
  /\ api.pc = "returned" => api.resp.status # 429
  /\ (Answered /\ api.resp.status = 429 /\ api.out.cause # "call_limit")
       => /\ api.pc = "loop"
          /\ api.sent = api.request
          /\ RatLE(IF api.resp.retry_after.present
                   THEN RatOfInt(api.resp.retry_after.fields[1].n)
                   ELSE RatOfInt(DEFAULT_RETRY_AFTER),
                   RatAdd(api.out.pace, api.out.wait))

\* C8 (as claimed): no order is written failed because of a 429 answer: the
\* handling of a 429 never raises into the per-order handler.
C8_Original ==
  ~(Finished /\ trace.exc.cause = "retry_after" /\ db[Cur].status = "failed")

\* C9: every answer that make_api_call returns or retries, whatever its
\* status code, was followed by exactly one pacing sleep: MIN_SLEEP_TIME
\* (1/2 s) when the call-limit header is absent or empty or current/max <=
\* 0.8, otherwise min(MAX_SLEEP_TIME, MIN_SLEEP_TIME * (current/max) * 5);
\* the sleep lies between MIN_SLEEP_TIME and MAX_SLEEP_TIME and is
\* non-decreasing in the ratio.
HasRatio(h) ==
  /\ h.present
  /\ Len(h.fields) = 2
  /\ h.fields[1].int /\ h.fields[2].int
  /\ h.fields[2].n > 0
RatioOf(h) == <<h.fields[1].n, h.fields[2].n>>

C9_Pacing ==
  (Answered /\ api.out.kind \in {"return", "retry"})
    => LET h == api.resp.limit
           pace == api.out.pace
       IN /\ api.out.paced = 1
          /\ (~h.present \/ h.fields = <<>>) => pace = <<1, 2>>
          /\ HasRatio(h) /\ 5 * h.fields[1].n <= 4 * h.fields[2].n
               => pace = <<1, 2>>
          /\ HasRatio(h) /\ 5 * h.fields[1].n > 4 * h.fields[2].n
               => IF h.fields[1].n >= 2 * h.fields[2].n
                  THEN pace = <<5, 1>>
                  ELSE pace[1] * 2 * h.fields[2].n = 5 * h.fields[1].n * pace[2]
          /\ RatLE(<<1, 2>>, pace) /\ RatLE(pace, <<5, 1>>)
          /\ \A g \in LimitHeaders :
               (HasRatio(g) /\ HasRatio(h))
                 => /\ RatLE(RatioOf(g), RatioOf(h))
                         => RatLE(PacingSleep(g).sleep, pace)
                    /\ RatLE(RatioOf(h), RatioOf(g))
                         => RatLE(pace, PacingSleep(g).sleep)

C9_Witness ==
  /\ Answered
  /\ api.resp.status = 429
  /\ api.out.kind = "retry"
  /\ HasRatio(api.resp.limit)
  /\ RatLT(<<1, 2>>, api.out.pace)
  /\ RatLT(api.out.pace, <<5, 1>>)

\* C10 (as claimed): an exception raised while routing order k leaves order
\* k written failed and the orders after it in the batch terminal.
C10_Original ==
  (pc = "exited" /\ fatal = "route")
    => /\ db[Cur].status = "failed"
       /\ \A i \in (k + 1)..Len(orders) : db[orders[i]].status \in Terminal

\* The rows of the fetched batch whose committed status is st
BatchWith(st) == {i \in 1..Len(orders) : db[orders[i]].status = st}

\* C11: when the summary of a batch is built, its successful and failed
\* totals add up to the number of rows fetched, the successful total is the
\* number of rows of the batch written fulfilled and the failed total the
\* number written failed; while the batch is processed the two totals add up
\* to the number of rows done, and each row done was counted exactly once,
\* as a success if and only if it was written fulfilled.
C11_Totals ==
  /\ pc = "report" =>
        /\ summary_message.total_orders = Len(orders)
        /\ summary_message.successful + summary_message.failed
             = summary_message.total_orders
        /\ summary_message.successful = Cardinality(BatchWith("fulfilled"))
        /\ summary_message.failed = Cardinality(BatchWith("failed"))
  /\ pc = "loop" => total_successful + total_failed = k
  /\ Finished =>
        /\ trace.succ + trace.fail = 1
        /\ trace.succ = 1 <=> db[Cur].status = "fulfilled"
        /\ trace.fail = 1 <=> db[Cur].status = "failed"

C11_Witness ==
  /\ pc = "report"
  /\ summary_message.total_orders = 2
  /\ summary_message.failed = 2
  /\ trace.exc.cause # "none"
  /\ \E i \in 1..Len(orders) : NoTenant(orders[i])

\* C12 (as claimed): a delivery of the summary that fails, the outbound
\* request raising included, does not stop the worker: the worker has never
\* exited because of the notification.
C12_Original == ~(pc = "exited" /\ fatal = "notify")

\* C13 (as claimed): when a batch has just been fetched, every tenant's
\* success_count is 0, failure_count is 0 and failed_orders is empty; and
\* the per-tenant counts of a summary do not exceed the rows of its batch.
C13_Original ==
  /\ (pc = "loop" /\ k = 0) =>
        \A p \in DOMAIN stores :
           /\ stores[p].success_count = 0
           /\ stores[p].failure_count = 0
           /\ stores[p].failed_orders = <<>>
  /\ pc = "report" =>
        \A p \in DOMAIN summary_message.per_store :
           summary_message.per_store[p].successful
             + summary_message.per_store[p].failed <= Len(orders)

\* C14 (as claimed): once a database operation has raised while the current
\* row is processed, the worker does nothing more than exit: it is in an
\* exception handler or has exited, and is never back in the for loop with a
\* further status written.
C14_Original == trace.dberr => pc \in {"except", "exited"}

InWorkflow == pc \in {"locate", "enumerate", "create", "except"}

\* C15: with the worker terminated and restarted at any point, a row has a
\* terminal status exactly when a write of it was committed, and keeps that
\* status for ever; while the worker is in the workflow of a row, every
\* earlier row of the batch is committed and the row itself is pending; at
\* a termination every row of the batch before the current one is terminal
\* and every row after it is pending; and a fetch, the first one after a
\* restart included, returns exactly the rows that are pending.
C15_CommittedSurvive ==
  /\ [](\A id \in OrderIds :
          /\ writes[id] <= 1
          /\ writes[id] = 1 <=> db[id].status \in Terminal)
  /\ [](InWorkflow =>
          /\ db[Cur].status = "pending"
          /\ \A i \in 1..(k - 1) : db[orders[i]].status \in Terminal)
  /\ [](pc = "killed" =>
          \A i \in 1..Len(orders) :
             /\ i < k => db[orders[i]].status \in Terminal
             /\ i > k => db[orders[i]].status = "pending")
  /\ [][\A id \in OrderIds :
          db[id].status \in Terminal => db'[id] = db[id]]_vars
  /\ [][(pc = "poll" /\ pc' \in {"loop", "sleep"})
          => Range(orders') = {id \in OrderIds : db[id].status = "pending"}]_vars

\* After a termination inside the workflow of the second row of a batch and
\* a restart, the first fetch has returned that row and not the first one.
C15_Witness ==
  /\ pc = "loop"
  /\ k = 0
  /\ \E id \in Range(orders) : "create" \in called[id]
  /\ \E id \in OrderIds :
       /\ id \notin Range(orders)
       /\ writes[id] = 1
       /\ db[id].status = "fulfilled"

\* C16 (as claimed): a row that is run again after a termination ends with
\* the status an uninterrupted run would have written. A create call of the
\* row has returned 201 (before the termination or after it), and in its
\* last run both lookups listed, nothing raised and no create call answered
\* anything but 201: the status is fulfilled.
C16_Original ==
  ( /\ Finished
    /\ closed[Cur] # {}
    /\ seen.locate = "listed"
    /\ seen.enumerate = "listed"
    /\ trace.exc.cause = "none"
    /\ ~trace.dberr
    /\ \A i \in 1..Len(trace.creates) : trace.creates[i] \in {0, 201} )
  => db[Cur].status = "fulfilled"

\* C17: with a second instance on the same table, a row is written twice
\* only when the second instance is one of the writers, and never more than
\* twice; a row the second instance has not written (every row, while that
\* instance is not started) is written at most once; and one instance
\* without a restart starts the workflow of a row only if it has issued no
\* request for that row before.
C17_OncePerInstance ==
  /\ [](\A id \in OrderIds :
          /\ writes[id] <= (IF id \in other.wrote THEN 2 ELSE 1)
          /\ other.pc = "off" => other.wrote = {})
  /\ [][(pc # "locate" /\ pc' = "locate")
          => called[orders'[k']] = {}]_vars

\* Double processing: both instances fetched the same pending row, both
\* ran the workflow for it and both wrote its status.
C17_Witness ==
  \E id \in OrderIds :
     /\ id \in other.ran
     /\ "create" \in called[id]
     /\ writes[id] = 2
     /\ Finished
     /\ Cur = id

\* The listing of the current order holds no open fulfillment order.
NoneOpen ==
  /\ fulfillment_orders # <<>>
  /\ \A i \in 1..Len(fulfillment_orders) :
       fulfillment_orders[i].ok /\ fulfillment_orders[i].status # "open"

\* C18: a create call is answered only for a fulfillment order whose status
\* is open, and a create request is issued only if the listing holds an
\* open one at or before the position of the inner loop; a fulfillment
\* order that is not open is passed without a call and the loop goes on to
\* the next position; an order whose listing holds no open fulfillment
\* order ends failed, with every position visited and no create request.
C18_OnlyOpen ==
  /\ (k >= 1 /\ pc \in {"create", "except", "loop"}) =>
        /\ Len(trace.creates) <= Len(fulfillment_orders)
        /\ \A i \in 1..Len(trace.creates) :
             /\ trace.creates[i] # 0 => fulfillment_orders[i] = Open
             /\ fulfillment_orders[i] # Open => trace.creates[i] = 0
        /\ "create" \in called[Cur] =>
             \E i \in 1..Len(fulfillment_orders) :
                /\ i <= Len(trace.creates) + 1
                /\ fulfillment_orders[i] = Open
  /\ pc = "create" => j = Len(trace.creates) + 1
  /\ (Finished /\ NoneOpen) =>
        /\ db[Cur].status = "failed"
        /\ "create" \notin called[Cur]
        /\ Len(trace.creates) = Len(fulfillment_orders)

C18_Witness ==
  /\ Finished
  /\ fulfillment_orders = <<Closed, Closed>>
  /\ trace.creates = <<0, 0>>
  /\ db[Cur].status = "failed"
  /\ called[Cur] = {"locate", "enumerate"}

\* C19: for the row the for loop is on: after a Locate answer that is not
\* 200 or lists no order, the only request ever issued for the row is the
\* Locate one; after an Enumerate answer that is not 200 or lists no
\* fulfillment order, no Create request is issued; in both cases the only
\* status the row gets is failed, and it has it when the loop is back at
\* its head; an Enumerate request is issued only after a 200 Locate that
\* listed an order, and a Create request only after that and a 200
\* Enumerate that listed a fulfillment order.
C19_ShortCircuit ==
  (k >= 1 /\ (InWorkflow \/ pc = "loop")) =>
    /\ seen.locate \in {"non200", "empty"} =>
          /\ called[Cur] = {"locate"}
          /\ db[Cur].status \in {"pending", "failed"}
          /\ Finished => db[Cur].status = "failed"
    /\ seen.enumerate \in {"non200", "empty"} =>
          /\ "create" \notin called[Cur]
          /\ db[Cur].status \in {"pending", "failed"}
          /\ Finished => db[Cur].status = "failed"
    /\ "enumerate" \in called[Cur] =>
          /\ "locate" \in called[Cur]
          /\ seen.locate = "listed"
    /\ "create" \in called[Cur] =>
          /\ "enumerate" \in called[Cur]
          /\ seen.enumerate = "listed"
          /\ fulfillment_orders # <<>>

C19_Witness ==
  /\ Finished
  /\ seen.locate = "listed"
  /\ seen.enumerate = "non200"
  /\ called[Cur] = {"locate", "enumerate"}
  /\ db[Cur].status = "failed"
  /\ trace.exc.cause = "none"

\* C20: when the for loop is back at its head, the row it was on has the
\* status fulfilled only if a create call for one of its open fulfillment
\* orders returned 201 during this pass, and it is then counted as one
\* success and no failure; a row with a tenant for which no create call
\* returned 201 has the status failed and is counted once, as a failure of
\* its tenant, with its name the last of the tenant's failed orders.
C20_FulfilledOnly201 ==
  Finished =>
    /\ db[Cur].status = "fulfilled" =>
          /\ \E i \in 1..Len(trace.creates) :
                /\ trace.creates[i] = 201
                /\ fulfillment_orders[i] = Open
          /\ trace.succ = 1
          /\ trace.fail = 0
          /\ stores[store].success_count >= 1
    /\ (~NoTenant(Cur) /\ ~Got201) =>
          /\ db[Cur].status = "failed"
          /\ trace.fail = 1
          /\ trace.succ = 0
          /\ store = UpperStr(Prefix(db[Cur].order_name.s))
          /\ stores[store].failure_count >= 1
          /\ stores[store].failure_count = Len(stores[store].failed_orders)
          /\ stores[store].failed_orders[Len(stores[store].failed_orders)]
               = db[Cur].order_name

C20_Witness ==
  /\ Finished
  /\ fulfillment_orders = <<Open, Open>>
  /\ trace.creates = <<500, 500>>
  /\ db[Cur].status = "failed"
  /\ stores[store].failure_count = 1
  /\ trace.exc.cause = "none"

\* C21 (as claimed): the worker reaches the summary only from the end of
\* the for loop over a non-empty batch, with the status of every row of the
\* batch committed; the summary is handed to the notifier once and the
\* worker's next step after it is the next fetch, with no status changed
\* and no request issued; an empty fetch goes to the sleep with no request
\* and no write, and the sleep is followed by the next fetch; a fetch
\* happens only after a summary or a sleep.
C21_Original ==
  /\ [][(pc # "report" /\ pc' = "report")
          => /\ pc = "loop"
             /\ orders # <<>>
             /\ \A i \in 1..Len(orders) : db[orders[i]].status \in Terminal]_vars
  /\ [][(pc = "report" /\ pc' # "report")
          => /\ pc' = "poll"
             /\ db' = db
             /\ called' = called]_vars
  /\ [][(pc = "poll" /\ pc' = "sleep")
          => /\ Pending = {}
             /\ called' = called
             /\ writes' = writes]_vars
  /\ [][(pc = "sleep" /\ pc' # "sleep") => pc' = "poll"]_vars
  /\ [][(pc # "poll" /\ pc' = "poll") => pc \in {"report", "sleep"}]_vars

\* Every row of the table has an order name.
AllNamed ==
  \A id \in OrderIds : db[id].status # "absent" => ~db[id].order_name.null

\* C22 (as claimed): with no database error, no termination and every call
\* answered in the end, every row that is pending at some time later has
\* the status fulfilled or failed, and the worker never exits; stated for
\* the runs in which every inserted row has an order name.
C22_Original ==
  []AllNamed =>
    /\ \A id \in OrderIds :
         (db[id].status = "pending") ~> (db[id].status \in Terminal)
    /\ [](pc # "exited")

\* A step of the worker in which make_api_call sleeps and reissues its
\* request
RetryStep ==
  \E o \in WorkerOutcomes : o.kind = "retry" /\ ApiStep(pc, o)

\* make_api_call is running for the current order.
Calling ==
  \/ pc \in {"locate", "enumerate"}
  \/ /\ pc = "create"
     /\ j <= Len(fulfillment_orders)
     /\ fulfillment_orders[j] = Open

\* C23: an iteration of make_api_call goes round again exactly on a 429
\* answer that raises nothing, hands back only an answer that is not 429
\* and otherwise raises, so no create answer the worker sees is a 429;
\* whatever the number of 429 answers so far (below the bound of the
\* model) a further one is retried; and a retry leaves the worker where it
\* is: same row, same step, no status written, no counter changed, no
\* summary reached.
C23_NoCeiling ==
  /\ \A r \in Responses :
       LET o == Attempt(r)
       IN /\ o.kind = "retry" => (~r.raises /\ r.status = 429)
          /\ o.kind = "return" =>
                (~r.raises /\ r.status # 429 /\ o.status = r.status)
          /\ o.kind \in {"retry", "return", "raise"}
  /\ \A o \in WorkerOutcomes : o.kind = "return" => o.status # 429
  /\ [](\A i \in 1..Len(trace.creates) : trace.creates[i] # 429)
  /\ []((Calling /\ retries < MaxRetries) => ENABLED RetryStep)
  /\ [][retries' = retries + 1
          => /\ Calling
             /\ UNCHANGED <<pc, db, writes, orders, k, j, total_successful,
                            total_failed, stores, trace, fatal,
                            fulfillment_orders, order_fulfilled>>]_vars

\* The call for the first row of a batch of two has retried up to the
\* bound: the second row is untouched and nothing has been written.
C23_Witness ==
  /\ pc = "create"
  /\ retries = MaxRetries
  /\ k = 1
  /\ Len(orders) = 2
  /\ db[orders[2]].status = "pending"
  /\ called[orders[2]] = {}
  /\ \A id \in OrderIds : writes[id] = 0

\* The entries of the environment whose prefix, base URL and credential
\* are all non-empty
Complete ==
  {n \in DOMAIN environ :
     /\ environ[n].ORDER_PREFIX # <<>>
     /\ environ[n].STORE_URL # ""
     /\ environ[n].ACCESS_TOKEN # ""}

\* C24 (as claimed): the loaded mapping holds a tenant exactly for each
\* entry whose prefix, base URL and credential are all non-empty, under the
\* upper-cased prefix, with that entry's URL and credential and counters
\* at zero when loaded; and a row is routed to a tenant exactly when the
\* upper-cased first two characters of its name are the key of one.
C24_Original ==
  /\ DOMAIN stores = {UpperStr(environ[n].ORDER_PREFIX) : n \in Complete}
  /\ \A p \in DOMAIN stores :
       \E n \in DOMAIN environ :
          /\ UpperStr(environ[n].ORDER_PREFIX) = p
          /\ stores[p].store_url = environ[n].STORE_URL
          /\ stores[p].access_token = environ[n].ACCESS_TOKEN
  /\ pc = "locate" =>
        /\ store = UpperStr(Prefix(db[Cur].order_name.s))
        /\ store \in DOMAIN stores

====
